---- MODULE Spec2Model ----
(***************************************************************************)
(* Model of the CAPTCHA verification backend (src/backend/server.js):      *)
(* the trust scorer calculateHumanScore, the keystroke analyzer            *)
(* analyzeKeystrokes, the /api/captcha/verify handler with its session     *)
(* state (captchaHash, captchaVerified) and the /api/login gate; and of    *)
(* the client component that calls it (src/frontend/src/Captcha.jsx).      *)
(*                                                                         *)
(* JavaScript values are modelled as tagged records: Undef, Null,          *)
(* Num(n), Str(<<chars>>), Arr(<<elements>>).  A text is a sequence of     *)
(* one-character strings so that toLowerCase and charAt are computed.      *)
(***************************************************************************)
EXTENDS Integers, Sequences, FiniteSets, TLC

VARIABLES
  captchaHash,      \* req.session.captchaHash
  captchaVerified,  \* req.session.captchaVerified
  expires,          \* time at which the session cookie/store entry expires
  now,              \* server clock, ms
  pc,               \* per request: position of the async handler
  loc,              \* per request: body and locals of the handler
  resp,             \* per request: the response sent
  nextSalt,         \* number of bcrypt.hash calls made (each draws a fresh salt)
  secretOf,         \* history: salt -> captchaText generated for that hash
  issuedAt,         \* history: salt -> time the hash was stored in the session
  attempted,        \* history: salts of challenges a text attempt was answered on
  fnIn,             \* input of the pure function under check
  fnOut,            \* its result
  widget,           \* the Captcha component of the client (Captcha.jsx)
  loginResp         \* status of the last /api/login response (0: none yet)

vars == <<captchaHash, captchaVerified, expires, now, pc, loc, resp,
          nextSalt, secretOf, issuedAt, attempted, fnIn, fnOut, widget, loginResp>>

(***************************************************************************)
(* Bounds of the model.                                                    *)
(***************************************************************************)
MaxIssues == 3      \* bcrypt.hash calls explored per behaviour
MaxInFlight == 2    \* requests of one session handled concurrently
MaxTicks == 7      \* clock steps explored
MaxEvents == 7      \* longest key-event sequence enumerated
MaxRequests == 3    \* requests the client component sends per behaviour
MaxKeys == 2        \* key presses recorded by the component between submissions

(***************************************************************************)
(* JavaScript values.                                                      *)
(***************************************************************************)
Undef == [type |-> "undefined"]
Null == [type |-> "null"]
Num(n) == [type |-> "number", val |-> n]
Str(s) == [type |-> "string", val |-> s]
Arr(a) == [type |-> "array", val |-> a]
Bool(b) == [type |-> "boolean", val |-> b]

\* the completion of a call that threw (a TypeError on a null element)
Threw == [type |-> "throw"]

\* JS truthiness of the values used here: undefined, null, "" and 0 are falsy.
Truthy(v) ==
  CASE v.type = "undefined" -> FALSE
    [] v.type = "null" -> FALSE
    [] v.type = "string" -> Len(v.val) > 0
    [] v.type = "number" -> v.val # 0
    [] OTHER -> TRUE

\* a < n and a > n for a JS value a and a number n: undefined converts to NaN
\* (every comparison false), null to 0.
JsLt(a, n) ==
  CASE a.type = "number" -> a.val < n
    [] a.type = "null" -> 0 < n
    [] OTHER -> FALSE

JsGt(a, n) ==
  CASE a.type = "number" -> a.val > n
    [] a.type = "null" -> 0 > n
    [] OTHER -> FALSE

RECURSIVE SumSeq(_)
SumSeq(s) == IF s = <<>> THEN 0 ELSE Head(s) + SumSeq(Tail(s))

\* Math.sqrt on the perfect squares the modelled segments produce.
Sqrt(n) == CHOOSE r \in 0..n : r * r = n

(***************************************************************************)
(* calculateHumanScore (server.js 21-70).                                  *)
(* Segment lengths of the modelled trajectories are integers, so           *)
(* totalDistance is exact; complexity and variance are compared with       *)
(* their thresholds by cross-multiplication instead of floating point.     *)
(***************************************************************************)
\* Velocities are kept as numerators over this common denominator: every
\* time delta of the modelled trajectories divides it.
VelDenom == 8 * 5

\* distance of the pair (path[i-1], path[i]), 1-based i >= 2
SegDistance(path, i) ==
  Sqrt((path[i].x - path[i-1].x) * (path[i].x - path[i-1].x)
       + (path[i].y - path[i-1].y) * (path[i].y - path[i-1].y))

SegTime(path, i) == path[i].t - path[i-1].t

\* totalDistance after the loop
TotalDistance(path) ==
  SumSeq([k \in 1..(Len(path) - 1) |-> SegDistance(path, k + 1)])

\* velocities after the loop, each as numerator over VelDenom
Velocities(path) ==
  LET idx == SelectSeq([k \in 1..(Len(path) - 1) |-> k + 1],
                       LAMBDA i : SegTime(path, i) > 10)
  IN [k \in 1..Len(idx) |-> (SegDistance(path, idx[k]) * VelDenom) \div SegTime(path, idx[k])]

\* straightLineDistance squared
StraightSq(path) ==
  LET s == path[1]
      e == path[Len(path)]
  IN (e.x - s.x) * (e.x - s.x) + (e.y - s.y) * (e.y - s.y)

\* complexity > 1.2, complexity = totalDistance / (straightLineDistance || 1)
ComplexityHigh(path) ==
  LET total == TotalDistance(path)
      sq == StraightSq(path)
  IN IF sq = 0 THEN 5 * total > 6
     ELSE 25 * total * total > 36 * sq

\* n^2 * VelDenom^2 * velocityVariance, n = velocities.length
VarianceNumer(path) ==
  LET v == Velocities(path)
      n == Len(v)
  IN n * SumSeq([k \in 1..n |-> v[k] * v[k]]) - SumSeq(v) * SumSeq(v)

\* velocityVariance > 0.05
VarianceHigh(path) ==
  LET n == Len(Velocities(path))
  IN n > 0 /\ 20 * VarianceNumer(path) > n * n * VelDenom * VelDenom

\* some element of the array is null: reading a property of it throws
HasNull(a) == \E i \in 1..Len(a) : a[i] = Null

\* a variant that sees 14 samples as enough
NotEnoughData_OffByOne(path) == ~Truthy(path) \/ Len(path.val) < 14

\* 31: if (!path || path.length < 15)
NotEnoughData(path) == ~Truthy(path) \/ Len(path.val) < 15

\* a variant that awards 30 points for more than 40 samples
PathPoints_Generous(path) ==
  (IF ComplexityHigh(path) THEN 20 ELSE 0)
    + (IF Len(path) > 40 THEN 30 ELSE 0)
    + (IF VarianceHigh(path) THEN 30 ELSE 0)

\* 64-66: the points awarded for the path
PathPoints(path) ==
  (IF ComplexityHigh(path) THEN 20 ELSE 0)
    + (IF Len(path) > 40 THEN 20 ELSE 0)
    + (IF VarianceHigh(path) THEN 30 ELSE 0)

\* a variant whose instant-click check sets the score without returning
calculateHumanScore_NoReturn(path, interactionTime) ==
  LET timing == IF JsGt(interactionTime, 1500) THEN 30 ELSE 0
  IN IF NotEnoughData(path) THEN Num(timing)
     ELSE IF HasNull(path.val) THEN Threw
     ELSE Num(timing + PathPoints(path.val))

\* the score returned, or Threw when the loop reads p2.x or p1.x of a null sample
calculateHumanScore(path, interactionTime) ==
  IF JsLt(interactionTime, 500) THEN Num(0)
  ELSE LET timing == IF JsGt(interactionTime, 1500) THEN 30 ELSE 0
       IN IF NotEnoughData(path) THEN Num(timing)
          ELSE IF HasNull(path.val) THEN Threw
          ELSE Num(timing + PathPoints(path.val))

(***************************************************************************)
(* analyzeKeystrokes (server.js 73-100).                                   *)
(***************************************************************************)
\* delays after the loop
Delays(events) == [k \in 1..(Len(events) - 1) |-> events[k + 1].t - events[k].t]

\* delays.filter(d => d < 40).length
TooFastCount(delays) == Len(SelectSeq(delays, LAMBDA d : d < 40))

\* a variant that passes by default when there is not enough data
analyzeKeystrokes_PassByDefault(events) ==
  IF ~Truthy(events) \/ Len(events.val) < 5 THEN Bool(TRUE)
  ELSE IF HasNull(events.val) THEN Threw
  ELSE LET delays == Delays(events.val)
       IN Bool(~(\/ SumSeq(delays) < 50 * Len(delays)
                 \/ 2 * TooFastCount(delays) > Len(events.val)))

\* the verdict returned, or Threw when the loop reads events[i].t of a null event
analyzeKeystrokes(events) ==
  IF ~Truthy(events) \/ Len(events.val) < 5 THEN Bool(FALSE)
  ELSE IF HasNull(events.val) THEN Threw
  ELSE LET delays == Delays(events.val)
       IN Bool(~(\/ SumSeq(delays) < 50 * Len(delays)      \* averageDelay < 50
                 \/ 2 * TooFastCount(delays) > Len(events.val)))

(***************************************************************************)
(* Texts, bcrypt and challenge generation (server.js 17, 119, 131-134,     *)
(* 147-150).                                                               *)
(***************************************************************************)
SALT_ROUNDS == 10

\* const chars = 'ABCDEFGHIJKLMNOPQRSTUVWXYZ0123456789'
chars == <<"A", "B", "C", "D", "E", "F", "G", "H", "I", "J", "K", "L", "M",
           "N", "O", "P", "Q", "R", "S", "T", "U", "V", "W", "X", "Y", "Z",
           "0", "1", "2", "3", "4", "5", "6", "7", "8", "9">>

lowerLetters == <<"a", "b", "c", "d", "e", "f", "g", "h", "i", "j", "k", "l", "m",
                  "n", "o", "p", "q", "r", "s", "t", "u", "v", "w", "x", "y", "z">>

\* String.prototype.toLowerCase on one character of the modelled alphabet
LowerChar(c) ==
  IF \E i \in 1..26 : chars[i] = c
  THEN lowerLetters[CHOOSE i \in 1..26 : chars[i] = c]
  ELSE c

\* s.toLowerCase()
toLowerCase(s) == [i \in 1..Len(s) |-> LowerChar(s[i])]

\* chars.charAt(k), k 0-based
charAt(str, k) == str[k + 1]

\* number of characters drawn by the generation loop (i < 6)
SecretLen == 6

\* the loop at 133/149: one Math.floor(Math.random() * chars.length) per position
GenerateText(draw) == [i \in 1..SecretLen |-> charAt(chars, draw[i])]

\* bcrypt.hash(data, SALT_ROUNDS): a salted one-way hash; the salt is fresh per call
bcryptHash(data, salt) == [type |-> "hash", text |-> data, salt |-> salt]

\* bcrypt.compare(data, hash)
bcryptCompare(data, hash) == data = hash.text

\* cookie: { maxAge: 600000 }
maxAge == 600000

(***************************************************************************)
(* Inputs explored.                                                        *)
(***************************************************************************)
\* outcomes of the six Math.random() draws that are explored
RandomDraws == { <<0, 1, 2, 26, 27, 28>>, <<25, 35, 0, 0, 35, 25>> }

Secrets == { GenerateText(d) : d \in RandomDraws }

\* a text with its first three characters lower-cased and the rest as given
MixedCase(s) == [i \in 1..Len(s) |-> IF i <= 3 THEN LowerChar(s[i]) ELSE s[i]]

TextInputs ==
  {Undef, Str(<<>>), Num(5), Str(<<"a", "b", "c", "0", "1", "3">>)}
    \cup { Str(s) : s \in Secrets }
    \cup { Str(toLowerCase(s)) : s \in Secrets }
    \cup { Str(MixedCase(s)) : s \in Secrets }

\* key events whose consecutive timestamps differ by the given delays
EventsOf(delays) ==
  [i \in 1..(Len(delays) + 1) |->
     [key |-> "k", t |-> 1000 + SumSeq(SubSeq(delays, 1, i - 1))]]

KeyInputs ==
  { Undef,
    Arr(EventsOf(<<80, 80, 80, 80, 80>>)),
    Arr(EventsOf(<<5, 5, 5, 5, 5>>)),
    Arr(EventsOf(<<80, 80, 80>>)),
    Arr(EventsOf(<<0, 0, 0, 200, 200>>)),
    Arr([i \in 1..5 |-> Null]) }

RECURSIVE ExtendPath(_, _, _)
\* acc extended to n samples, each the last one moved by the next step of pat
ExtendPath(n, pat, acc) ==
  IF Len(acc) >= n THEN acc
  ELSE LET last == acc[Len(acc)]
           step == pat[((Len(acc) - 1) % Len(pat)) + 1]
       IN ExtendPath(n, pat, Append(acc, [x |-> last.x + step.dx,
                                          y |-> last.y + step.dy,
                                          t |-> last.t + step.dt]))

\* a trajectory of n samples from (0, 0, 1000) repeating the steps of pat
MkPath(n, pat) ==
  IF n = 0 THEN <<>> ELSE ExtendPath(n, pat, <<[x |-> 0, y |-> 0, t |-> 1000]>>)

Step(dx, dy, dt) == [dx |-> dx, dy |-> dy, dt |-> dt]

StepSet ==
  { Step(1, 0, 20), Step(20, 0, 20), Step(0, 1, 20), Step(-1, 0, 20),
    Step(1, 0, 5), Step(0, 0, 20), Step(3, 4, 40), Step(0, 12, 10),
    Step(0, 10, 20) }

Patterns == { <<a>> : a \in StepSet } \cup { <<a, b>> : a \in StepSet, b \in StepSet }

PathLengths == {0, 1, 14, 15, 16, 40, 41}

ScorePaths ==
  {Undef, Arr([i \in 1..15 |-> Null])}
    \cup { Arr(MkPath(n, p)) : n \in PathLengths, p \in Patterns }

ScoreTimes ==
  {Undef, Num(-1), Num(0), Num(200), Num(499), Num(500), Num(1000),
   Num(1500), Num(1501), Num(2000)}

\* the trajectories and times offered to the request handler
MousePaths ==
  { Undef, Arr(<<>>),
    Arr(MkPath(15, <<Step(1, 0, 20), Step(0, 1, 20)>>)),
    Arr(MkPath(41, <<Step(20, 0, 20), Step(0, 10, 20)>>)),
    Arr(MkPath(41, <<Step(1, 0, 20)>>)),
    Arr([i \in 1..15 |-> Null]) }

InteractionTimes == {Undef, Num(200), Num(1000), Num(2000)}

Body(mp, it, ci, ke) ==
  [mousePath |-> mp, interactionTime |-> it, captchaInput |-> ci, keyEvents |-> ke]

\* request bodies: text submissions, and submissions without a text
Bodies ==
  { Body(Undef, Undef, ci, ke) : ci \in TextInputs, ke \in KeyInputs }
    \cup { Body(mp, Num(2000), Undef, Undef) : mp \in MousePaths }
    \cup { Body(mp, it, Undef, Undef) :
             mp \in {Undef, Arr(<<>>), Arr(MkPath(41, <<Step(20, 0, 20), Step(0, 10, 20)>>))},
             it \in InteractionTimes }
    \cup { Body(mp, Num(2000), Str(<<>>), Undef) : mp \in {Undef, Arr(<<>>)} }
    \cup { Body(mp, Num(2000), Str(s), ke) :
             mp \in {Arr(MkPath(41, <<Step(20, 0, 20), Step(0, 10, 20)>>))},
             s \in Secrets, ke \in KeyInputs }

\* a curved trajectory of uneven speed, n samples
RichPath(n) == Arr(MkPath(n, <<Step(20, 0, 20), Step(0, 10, 20)>>))

\* key-event lists too short to be analysed
FewKeyInputs ==
  { Undef, Null, Arr(<<>>), Arr(EventsOf(<<>>)), Arr(EventsOf(<<80, 80, 80>>)),
    Arr([i \in 1..4 |-> Null]) }

\* the request that obtains a challenge: { interactionTime: 200 }
IssueBody == Body(Undef, Num(200), Undef, Undef)

\* request shapes: each field present or absent, texts right, wrong and
\* empty, trajectories short and long
ShapeBodies ==
  { Body(mp, it, Undef, Undef) :
      mp \in {Undef, Null, Arr(<<>>), Arr(<<Null, Null>>), RichPath(14), RichPath(15),
              RichPath(41)},
      it \in InteractionTimes \cup {Num(600000)} }
    \cup { Body(mp, Num(2000), ci, ke) :
             mp \in {Undef, RichPath(14), RichPath(41)},
             ci \in {Str(<<>>), Str(<<"a", "b", "c", "0", "1", "3">>),
                     Str(<<"A", "B", "C", "0", "1", "2">>)},
             ke \in FewKeyInputs \cup { Arr(EventsOf(<<80, 80, 80, 80, 80>>)),
                                       Arr(EventsOf(<<5, 5, 5, 5, 5>>)) } }

(***************************************************************************)
(* The session and the /api/captcha/verify handler (server.js 103-162).    *)
(* The handler is async: it gives up control at each await (bcrypt.compare *)
(* at 119, bcrypt.hash at 134 and 150), so it is one action per segment    *)
(* between awaits.  req.session is the session's state, read and written   *)
(* where the statements execute.                                           *)
(***************************************************************************)
Reqs == 1..MaxInFlight

NoLoc ==
  [captchaInput |-> Undef, keyEvents |-> Undef, hashRead |-> Undef,
   isTextCorrect |-> FALSE, message |-> "", captchaText |-> <<>>, hash |-> Undef,
   score |-> 0, arrived |-> 0]

\* The response sent (status 0: none yet) with the history of its request:
\* the branch taken (flow), the salt of the hash compared against (salt) and
\* its age when the request arrived (age), the salt issued (issued), the
\* score computed (score).
Response(status, verified, challengeRequired, message, captchaText) ==
  [status |-> status, verified |-> verified, challengeRequired |-> challengeRequired,
   message |-> message, captchaText |-> captchaText,
   flow |-> "none", salt |-> 0, age |-> 0, issued |-> 0, score |-> 0]

NoResp == Response(0, "undefined", FALSE, "", <<>>)

\* res.status(500).json({ message: 'Server error during verification.' })
ServerError == Response(500, "undefined", FALSE, "Server error during verification.", <<>>)

\* the session the middleware hands to a request arriving now: the stored
\* one, or a new empty one when the stored one has expired
Expired == now >= expires
SessionHash == IF Expired THEN Undef ELSE captchaHash
SessionVerified == IF Expired THEN "undefined" ELSE captchaVerified

\* the session is touched when the response ends
Touch == expires' = now + maxAge

\* a response that ends the request without an await and leaves the session's
\* fields as they are
RespondAtOnce(r, response) ==
  /\ resp' = [resp EXCEPT ![r] = response]
  /\ captchaHash' = SessionHash
  /\ captchaVerified' = SessionVerified
  /\ Touch
  /\ UNCHANGED <<pc, loc, nextSalt>>

\* 116: if (!req.session.captchaHash)
NoChallengeActive(hash) == ~Truthy(hash)

\* a variant that also clears the verified flag
NoChallenge_ClearsVerified(r) ==
  /\ resp' = [resp EXCEPT ![r] =
        [Response(400, "false", FALSE, "No challenge active.", <<>>) EXCEPT !.flow = "text"]]
  /\ captchaHash' = SessionHash
  /\ captchaVerified' = "false"
  /\ Touch
  /\ UNCHANGED <<pc, loc, nextSalt>>

\* 117: return res.status(400).json({ verified: false, message: 'No challenge active.' })
NoChallenge(r) ==
  RespondAtOnce(r, [Response(400, "false", FALSE, "No challenge active.", <<>>)
                      EXCEPT !.flow = "text"])

\* 119: bcrypt.compare(captchaInput.toLowerCase(), req.session.captchaHash)
CompareInput(captchaInput, hash) == bcryptCompare(toLowerCase(captchaInput), hash)

\* 119: the text branch up to the await of bcrypt.compare
TextStart(r, body) ==
  IF body.captchaInput.type # "string"
  THEN \* captchaInput.toLowerCase is not a function
       RespondAtOnce(r, [ServerError EXCEPT !.flow = "text"])
  ELSE /\ pc' = [pc EXCEPT ![r] = "compare"]
       /\ loc' = [loc EXCEPT ![r] =
             [NoLoc EXCEPT !.captchaInput = body.captchaInput,
                           !.keyEvents = body.keyEvents,
                           !.hashRead = SessionHash,
                           !.isTextCorrect = CompareInput(body.captchaInput.val, SessionHash),
                           !.arrived = now]]
       /\ resp' = [resp EXCEPT ![r] = NoResp]
       /\ UNCHANGED <<captchaHash, captchaVerified, expires, nextSalt>>

\* a variant that passes every score above 20
ScorePasses_AboveTwenty(score) == score > 20

\* a variant that passes a score of 50
ScorePasses_Inclusive(score) == score >= 50

\* 142: if (score > 50)
ScorePasses(score) == score > 50

\* 141: the score of each request body, tabulated
BodyScore ==
  [body \in Bodies \cup ShapeBodies |->
     calculateHumanScore(body.mousePath, body.interactionTime)]

\* 141-150: the behavioral branch up to its response or the await of bcrypt.hash
BehavioralStart(r, body) ==
  LET result == BodyScore[body]
      score == result.val
  IN IF result = Threw
     THEN RespondAtOnce(r, [ServerError EXCEPT !.flow = "behavioral"])
     ELSE IF ScorePasses(score)
          THEN /\ captchaVerified' = "true"
               /\ captchaHash' = SessionHash
               /\ resp' = [resp EXCEPT ![r] =
                     [Response(200, "true", FALSE, "", <<>>)
                        EXCEPT !.flow = "behavioral", !.score = score]]
               /\ Touch
               /\ UNCHANGED <<pc, loc, nextSalt>>
          ELSE /\ nextSalt < MaxIssues
               /\ pc' = [pc EXCEPT ![r] = "hashBehavioral"]
               /\ \E draw \in RandomDraws :
                     loc' = [loc EXCEPT ![r] =
                       [NoLoc EXCEPT !.captchaText = GenerateText(draw),
                                     !.hash = bcryptHash(toLowerCase(GenerateText(draw)),
                                                         nextSalt + 1),
                                     !.score = score,
                                     !.arrived = now]]
               /\ nextSalt' = nextSalt + 1
               /\ resp' = [resp EXCEPT ![r] = NoResp]
               /\ UNCHANGED <<captchaHash, captchaVerified, expires>>

\* a variant that routes on the trajectory and interaction time first
VerifyStart_ScoreFirst(r, body) ==
  /\ pc[r] = "idle"
  /\ UNCHANGED <<now, secretOf, issuedAt, attempted, fnIn, fnOut, widget, loginResp>>
  /\ IF Truthy(body.mousePath) /\ Truthy(body.interactionTime)
     THEN BehavioralStart(r, body)
     ELSE IF Truthy(body.captchaInput)
     THEN IF NoChallengeActive(SessionHash) THEN NoChallenge(r) ELSE TextStart(r, body)
     ELSE BehavioralStart(r, body)

\* 112-119, 141-150: from the arrival of the request to its first await or response
VerifyStart(r, body) ==
  /\ pc[r] = "idle"
  /\ UNCHANGED <<now, secretOf, issuedAt, attempted, fnIn, fnOut, widget, loginResp>>
  /\ IF Truthy(body.captchaInput)
     THEN IF NoChallengeActive(SessionHash) THEN NoChallenge(r) ELSE TextStart(r, body)
     ELSE BehavioralStart(r, body)

\* a variant that accepts when either check passes
Accepts_Either(isTextCorrect, areKeystrokesHuman) == isTextCorrect \/ areKeystrokesHuman

\* 124: if (isTextCorrect && areKeystrokesHuman)
Accepts(isTextCorrect, areKeystrokesHuman) == isTextCorrect /\ areKeystrokesHuman

\* 130: the message of a failed text check
FailureMessage(isTextCorrect) ==
  IF isTextCorrect THEN "Typing pattern seems automated. Please try again."
  ELSE "Incorrect text. Please try again."

\* history of a text request for its response
TextHistory(r, response) ==
  [response EXCEPT !.flow = "text",
                   !.salt = loc[r].hashRead.salt,
                   !.age = loc[r].arrived - issuedAt[loc[r].hashRead.salt]]

\* a variant that leaves the hash in the session on success
AcceptText_KeepsHash(r) ==
  /\ captchaVerified' = "true"
  /\ captchaHash' = captchaHash
  /\ resp' = [resp EXCEPT ![r] = TextHistory(r, Response(200, "true", FALSE, "", <<>>))]
  /\ attempted' = attempted \cup {loc[r].hashRead.salt}
  /\ pc' = [pc EXCEPT ![r] = "idle"]
  /\ loc' = [loc EXCEPT ![r] = NoLoc]
  /\ Touch
  /\ UNCHANGED nextSalt

\* 125-127: the text check passed
AcceptText(r) ==
  /\ captchaVerified' = "true"
  /\ captchaHash' = Null
  /\ resp' = [resp EXCEPT ![r] = TextHistory(r, Response(200, "true", FALSE, "", <<>>))]
  /\ attempted' = attempted \cup {loc[r].hashRead.salt}
  /\ pc' = [pc EXCEPT ![r] = "idle"]
  /\ loc' = [loc EXCEPT ![r] = NoLoc]
  /\ Touch
  /\ UNCHANGED nextSalt

\* 130-134: the text check failed, up to the await of bcrypt.hash
RejectText(r) ==
  /\ nextSalt < MaxIssues
  /\ pc' = [pc EXCEPT ![r] = "hashText"]
  /\ \E draw \in RandomDraws :
        loc' = [loc EXCEPT ![r].message = FailureMessage(loc[r].isTextCorrect),
                           ![r].captchaText = GenerateText(draw),
                           ![r].hash = bcryptHash(toLowerCase(GenerateText(draw)),
                                                  nextSalt + 1)]
  /\ nextSalt' = nextSalt + 1
  /\ UNCHANGED <<captchaHash, captchaVerified, expires, resp, attempted>>

\* 119-134: bcrypt.compare has resolved
AfterCompare(r) ==
  /\ pc[r] = "compare"
  /\ UNCHANGED <<now, secretOf, issuedAt, fnIn, fnOut, widget, loginResp>>
  /\ IF analyzeKeystrokes(loc[r].keyEvents) = Threw
     THEN /\ resp' = [resp EXCEPT ![r] = TextHistory(r, ServerError)]
          /\ pc' = [pc EXCEPT ![r] = "idle"]
          /\ loc' = [loc EXCEPT ![r] = NoLoc]
          /\ Touch
          /\ UNCHANGED <<captchaHash, captchaVerified, nextSalt, attempted>>
     ELSE IF Accepts(loc[r].isTextCorrect, analyzeKeystrokes(loc[r].keyEvents).val)
          THEN AcceptText(r)
          ELSE RejectText(r)

\* a variant that returns the new text but leaves the old hash in the session
AfterHashText_KeepsOld(r) ==
  /\ pc[r] = "hashText"
  /\ captchaHash' = captchaHash
  /\ resp' = [resp EXCEPT ![r] =
        [TextHistory(r, Response(401, "false", FALSE, loc[r].message, loc[r].captchaText))
           EXCEPT !.issued = loc[r].hash.salt]]
  /\ secretOf' = secretOf @@ (loc[r].hash.salt :> loc[r].captchaText)
  /\ issuedAt' = issuedAt @@ (loc[r].hash.salt :> now)
  /\ attempted' = attempted \cup {loc[r].hashRead.salt}
  /\ pc' = [pc EXCEPT ![r] = "idle"]
  /\ loc' = [loc EXCEPT ![r] = NoLoc]
  /\ Touch
  /\ UNCHANGED <<captchaVerified, now, nextSalt, fnIn, fnOut, widget, loginResp>>

\* 135-136: bcrypt.hash has resolved in the text branch
AfterHashText(r) ==
  /\ pc[r] = "hashText"
  /\ captchaHash' = loc[r].hash
  /\ resp' = [resp EXCEPT ![r] =
        [TextHistory(r, Response(401, "false", FALSE, loc[r].message, loc[r].captchaText))
           EXCEPT !.issued = loc[r].hash.salt]]
  /\ secretOf' = secretOf @@ (loc[r].hash.salt :> loc[r].captchaText)
  /\ issuedAt' = issuedAt @@ (loc[r].hash.salt :> now)
  /\ attempted' = attempted \cup {loc[r].hashRead.salt}
  /\ pc' = [pc EXCEPT ![r] = "idle"]
  /\ loc' = [loc EXCEPT ![r] = NoLoc]
  /\ Touch
  /\ UNCHANGED <<captchaVerified, now, nextSalt, fnIn, fnOut, widget, loginResp>>

\* 151-156: bcrypt.hash has resolved in the behavioral branch
AfterHashBehavioral(r) ==
  /\ pc[r] = "hashBehavioral"
  /\ captchaHash' = loc[r].hash
  /\ resp' = [resp EXCEPT ![r] =
        [Response(200, "false", TRUE, "", loc[r].captchaText)
           EXCEPT !.flow = "behavioral", !.issued = loc[r].hash.salt,
                  !.score = loc[r].score]]
  /\ secretOf' = secretOf @@ (loc[r].hash.salt :> loc[r].captchaText)
  /\ issuedAt' = issuedAt @@ (loc[r].hash.salt :> now)
  /\ pc' = [pc EXCEPT ![r] = "idle"]
  /\ loc' = [loc EXCEPT ![r] = NoLoc]
  /\ Touch
  /\ UNCHANGED <<captchaVerified, now, nextSalt, attempted, fnIn, fnOut, widget, loginResp>>

\* 166-171: the status /api/login answers with
LoginStatus == IF SessionVerified = "true" THEN 200 ELSE 403

\* a variant that does not invalidate the flag after use
Login_KeepsVerified ==
  /\ captchaVerified' = SessionVerified
  /\ loginResp' = LoginStatus
  /\ captchaHash' = SessionHash
  /\ Touch
  /\ UNCHANGED <<now, pc, loc, resp, nextSalt, secretOf, issuedAt, attempted, fnIn, fnOut, widget>>

\* /api/login (server.js 165-172)
Login ==
  /\ captchaVerified' = IF SessionVerified = "true" THEN "false" ELSE SessionVerified
  /\ loginResp' = LoginStatus
  /\ captchaHash' = SessionHash
  /\ Touch
  /\ UNCHANGED <<now, pc, loc, resp, nextSalt, secretOf, issuedAt, attempted, fnIn, fnOut, widget>>

\* the clock advances
TickMs == 100 * 1000

Tick ==
  /\ now + TickMs <= MaxTicks * TickMs
  /\ now' = now + TickMs
  /\ UNCHANGED <<captchaHash, captchaVerified, expires, pc, loc, resp,
                 nextSalt, secretOf, issuedAt, attempted, fnIn, fnOut, widget, loginResp>>

(***************************************************************************)
(* The Captcha component of the client (frontend/src/Captcha.jsx).  Its     *)
(* React state is the record widget; fetching is the payload of the        *)
(* request awaiting its response, lastCall the argument of the last         *)
(* onVerified call, sent the number of requests sent.                      *)
(***************************************************************************)
serverVars == <<captchaHash, captchaVerified, expires, now, pc, loc, resp,
                nextSalt, secretOf, issuedAt, attempted, fnIn, fnOut, loginResp>>

NoFetch == [kind |-> "none", keyEvents |-> 0]

\* 4-13: the useState initial values
NewWidget ==
  [status |-> "pending", challengeText |-> <<>>, required |-> FALSE,
   userInput |-> FALSE, message |-> "", isLoading |-> FALSE, keyEvents |-> 0,
   fetching |-> NoFetch, lastCall |-> "none", sent |-> 0]

\* the response bodies the server sends (server.js 117, 127, 136, 144, 152, 160)
ServerResponses ==
  { Response(200, "true", FALSE, "", <<>>),
    Response(400, "false", FALSE, "No challenge active.", <<>>),
    ServerError }
    \cup { Response(200, "false", TRUE, "", s) : s \in Secrets }
    \cup { Response(401, "false", FALSE, FailureMessage(c), s) :
             c \in BOOLEAN, s \in Secrets }

\* 58-60, 63-68: handleApiVerification up to the await of fetch
Sending(w, payload) ==
  [w EXCEPT !.isLoading = TRUE, !.message = "", !.fetching = payload, !.sent = @ + 1]

\* 94-98, 144-145: the checkbox row is rendered unless status is 'challenge'
\* and its onClick is handleCheckboxClick whatever the status
handleCheckboxClick ==
  /\ widget.status # "challenge"
  /\ ~widget.isLoading
  /\ widget.sent < MaxRequests
  /\ widget' = Sending(widget, [kind |-> "behavioral", keyEvents |-> 0])
  /\ UNCHANGED serverVars

\* 107-109, 123: a key pressed in the text input of the challenge form
handleKeyDown ==
  /\ widget.status = "challenge"
  /\ widget.keyEvents < MaxKeys
  /\ widget' = [widget EXCEPT !.keyEvents = @ + 1, !.userInput = TRUE]
  /\ UNCHANGED serverVars

\* 100-105, 118-131: the form is submitted; the input is required and the
\* button is disabled while isLoading
handleChallengeSubmit ==
  /\ widget.status = "challenge"
  /\ widget.userInput
  /\ ~widget.isLoading
  /\ widget.sent < MaxRequests
  /\ widget' = [Sending(widget, [kind |-> "text", keyEvents |-> widget.keyEvents])
                  EXCEPT !.userInput = FALSE, !.keyEvents = 0]
  /\ UNCHANGED serverVars

\* 77, 82: data.message || fallback
MessageOr(message, fallback) == IF message = "" THEN fallback ELSE message

\* 69-84, 89-91: the response has arrived and its JSON is data
ReceiveResponse(data) ==
  /\ widget.fetching # NoFetch
  /\ UNCHANGED serverVars
  /\ IF data.verified = "true"
     THEN widget' = [widget EXCEPT !.status = "verified", !.lastCall = "true",
                                   !.isLoading = FALSE, !.fetching = NoFetch]
     ELSE IF data.challengeRequired
     THEN widget' = [widget EXCEPT
                       !.status = "challenge",
                       !.challengeText = data.captchaText, !.required = TRUE,
                       !.message = MessageOr(data.message,
                                             "Please complete the security check."),
                       !.lastCall = "false",
                       !.isLoading = FALSE, !.fetching = NoFetch]
     ELSE widget' = [widget EXCEPT
                       !.status = "challenge",
                       !.challengeText = IF data.captchaText # <<>>
                                         THEN data.captchaText ELSE widget.challengeText,
                       !.required = TRUE,
                       !.message = MessageOr(data.message,
                                             "Verification failed. Please try again."),
                       !.lastCall = "false",
                       !.isLoading = FALSE, !.fetching = NoFetch]

\* 85-91: fetch or response.json() rejected
NetworkError ==
  /\ widget.fetching # NoFetch
  /\ widget' = [widget EXCEPT
                  !.message = "Error: Could not connect to verification service.",
                  !.lastCall = "false",
                  !.isLoading = FALSE, !.fetching = NoFetch]
  /\ UNCHANGED serverVars

\* a new session, no request in flight
SessionIdle ==
  /\ captchaHash = Undef
  /\ captchaVerified = "undefined"
  /\ expires = maxAge
  /\ now = 0
  /\ pc = [r \in Reqs |-> "idle"]
  /\ loc = [r \in Reqs |-> NoLoc]
  /\ resp = [r \in Reqs |-> NoResp]
  /\ nextSalt = 0
  /\ secretOf = <<>>
  /\ issuedAt = <<>>
  /\ attempted = {}
  /\ loginResp = 0

Init ==
  /\ SessionIdle
  /\ widget = NewWidget
  /\ fnIn = Undef
  /\ fnOut = Undef

\* requests of one session handled one after the other
Next ==
  \/ \E body \in Bodies : VerifyStart(1, body)
  \/ AfterCompare(1)
  \/ AfterHashText(1)
  \/ AfterHashBehavioral(1)
  \/ Login

Spec == Init /\ [][Next]_vars

(***************************************************************************)
(* Requests of one session handled concurrently: a second request may      *)
(* arrive while the first is suspended at an await.                        *)
(***************************************************************************)
ConcBodies ==
  { Body(Undef, Undef, Str(s), Arr(EventsOf(<<80, 80, 80, 80, 80>>))) : s \in Secrets }
    \cup { Body(Undef, Undef, Str(<<"a", "b", "c", "0", "1", "3">>),
                Arr(EventsOf(<<80, 80, 80, 80, 80>>))),
           Body(Undef, Undef, Str(<<"A", "B", "C", "0", "1", "2">>),
                Arr(EventsOf(<<5, 5, 5, 5, 5>>))),
           Body(Undef, Num(200), Undef, Undef) }

NextConc ==
  \/ \E r \in Reqs, body \in ConcBodies : VerifyStart(r, body)
  \/ \E r \in Reqs : AfterCompare(r)
  \/ \E r \in Reqs : AfterHashText(r)
  \/ \E r \in Reqs : AfterHashBehavioral(r)
  \/ Login

SpecConc == Init /\ [][NextConc]_vars

\* the same requests handled one after the other, on either of the slots, so
\* that the responses of two requests are kept
Alone(r) == \A q \in Reqs \ {r} : pc[q] = "idle"

NextPair ==
  \/ \E r \in Reqs, body \in ConcBodies : Alone(r) /\ VerifyStart(r, body)
  \/ \E r \in Reqs : AfterCompare(r)
  \/ \E r \in Reqs : AfterHashText(r)
  \/ \E r \in Reqs : AfterHashBehavioral(r)
  \/ Login

SpecPair == Init /\ [][NextPair]_vars

(***************************************************************************)
(* Requests of one session handled one after the other while time passes.  *)
(***************************************************************************)
ClockBodies ==
  { Body(Undef, Undef, Str(s), Arr(EventsOf(<<80, 80, 80, 80, 80>>))) : s \in Secrets }
    \cup { Body(Undef, Num(200), Undef, Undef) }

NextClock ==
  \/ Tick
  \/ \E body \in ClockBodies : VerifyStart(1, body)
  \/ AfterCompare(1)
  \/ AfterHashText(1)
  \/ AfterHashBehavioral(1)
  \/ Login

SpecClock == Init /\ [][NextClock]_vars

(***************************************************************************)
(* The two pure functions applied to enumerated inputs.                    *)
(***************************************************************************)
ScoreInit ==
  /\ SessionIdle
  /\ widget = NewWidget
  /\ fnIn \in { [path |-> p, interactionTime |-> t] : p \in ScorePaths, t \in ScoreTimes }
  /\ fnOut = Undef

ApplyScore ==
  /\ fnOut = Undef
  /\ fnOut' = calculateHumanScore(fnIn.path, fnIn.interactionTime)
  /\ UNCHANGED <<captchaHash, captchaVerified, expires, now, pc, loc, resp,
                 nextSalt, secretOf, issuedAt, attempted, fnIn, widget, loginResp>>

SpecScore == ScoreInit /\ [][ApplyScore]_vars

DelaySet == {0, 39, 40, 50, 200}

RECURSIVE SeqsUpTo(_, _)
\* the sequences over S of length at most n
SeqsUpTo(S, n) ==
  IF n = 0 THEN {<<>>}
  ELSE LET shorter == SeqsUpTo(S, n - 1)
       IN shorter \cup { Append(q, x) : q \in shorter, x \in S }

KeySeqs ==
  {Undef, Arr(<<>>), Arr([i \in 1..5 |-> Null])}
    \cup { Arr(EventsOf(d)) : d \in SeqsUpTo(DelaySet, MaxEvents - 1) }

KeysInit ==
  /\ SessionIdle
  /\ widget = NewWidget
  /\ fnIn \in KeySeqs
  /\ fnOut = Undef

ApplyKeys ==
  /\ fnOut = Undef
  /\ fnOut' = analyzeKeystrokes(fnIn)
  /\ UNCHANGED <<captchaHash, captchaVerified, expires, now, pc, loc, resp,
                 nextSalt, secretOf, issuedAt, attempted, fnIn, widget, loginResp>>

SpecKeys == KeysInit /\ [][ApplyKeys]_vars

(***************************************************************************)
(* The client component against every response the server can send.       *)
(***************************************************************************)
NextWidget ==
  \/ handleCheckboxClick
  \/ handleKeyDown
  \/ handleChallengeSubmit
  \/ \E data \in ServerResponses : ReceiveResponse(data)
  \/ NetworkError

SpecWidget == Init /\ [][NextWidget]_vars

(***************************************************************************)
(* One request shape under check: the request fnIn is sent any number of   *)
(* times on a session that can also obtain challenges with IssueBody, the  *)
(* requests handled one after the other.                                   *)
(***************************************************************************)
ShapeInit ==
  /\ SessionIdle
  /\ widget = NewWidget
  /\ fnIn \in ShapeBodies
  /\ fnOut = Undef

NextShape ==
  \/ VerifyStart(1, IssueBody)
  \/ VerifyStart(1, fnIn)
  \/ AfterCompare(1)
  \/ AfterHashText(1)
  \/ AfterHashBehavioral(1)

SpecShape == ShapeInit /\ [][NextShape]_vars

(***************************************************************************)
(* Properties.                                                             *)
(***************************************************************************)
\* the characters c and d are the same letter or digit, whatever their case
SameIgnoringCase(c, d) ==
  c = d \/ \E i \in 1..26 : {c, d} = {chars[i], lowerLetters[i]}

\* the texts a and b are equal compared case-insensitively
EqualIgnoringCase(a, b) ==
  Len(a) = Len(b) /\ \A i \in 1..Len(a) : SameIgnoringCase(a[i], b[i])

C2_AtMostOneAccepted ==
  \A r1, r2 \in Reqs :
    (/\ r1 # r2
     /\ resp[r1].flow = "text" /\ resp[r1].verified = "true"
     /\ resp[r2].flow = "text" /\ resp[r2].verified = "true")
    => resp[r1].salt # resp[r2].salt

\* C3: challenge expiry.  A text submission is never accepted against a
\* challenge that was issued more than 120,000 ms before the request arrived.
C3_Expiry ==
  \A r \in Reqs :
    (resp[r].flow = "text" /\ resp[r].verified = "true") => resp[r].age <= 120000

\* C4: text verification accepts exactly on the conjunction.  When the
\* comparison of a text request resolves, the request is accepted if and only
\* if the submitted text equals the challenge secret compared
\* case-insensitively and the keystroke analyzer returns human-like;
\* otherwise it goes on to a response that is not an acceptance.
C4_Conjunction ==
  [][\A r \in Reqs :
       (pc[r] = "compare" /\ pc'[r] # "compare")
       => LET accepted == pc'[r] = "idle" /\ resp'[r].status = 200
                          /\ resp'[r].verified = "true" /\ captchaVerified' = "true"
              textEqual == EqualIgnoringCase(loc[r].captchaInput.val,
                                             secretOf[loc[r].hashRead.salt])
              human == analyzeKeystrokes(loc[r].keyEvents) = Bool(TRUE)
          IN /\ accepted <=> (textEqual /\ human)
             /\ ~accepted => \/ pc'[r] = "hashText"
                             \/ (pc'[r] = "idle" /\ resp'[r].verified # "true")]_vars

\* a text submission has been accepted
C4_Witness ==
  \E r \in Reqs : resp[r].flow = "text" /\ resp[r].status = 200 /\ resp[r].verified = "true"

\* C5: a rejected text verification does not reveal which sub-check failed.
\* Any two rejections of text attempts carry the same status and message.
C5_SameRejection ==
  \A r1, r2 \in Reqs :
    (resp[r1].status = 401 /\ resp[r2].status = 401)
    => (resp[r1].message = resp[r2].message /\ resp[r1].verified = resp[r2].verified)

\* C6: a text submission when no challenge is outstanding is rejected with
\* the no-challenge error whatever text and key events it carries, and it
\* leaves the session as it was: no challenge created, verified flag untouched.
C6_NoChallenge ==
  [][(/\ ~Truthy(captchaHash)
      /\ \E body \in Bodies : Truthy(body.captchaInput) /\ VerifyStart(1, body))
     => /\ resp'[1].status = 400
        /\ resp'[1].verified = "false"
        /\ resp'[1].message = "No challenge active."
        /\ resp'[1].captchaText = <<>>
        /\ pc'[1] = "idle"
        /\ UNCHANGED <<captchaHash, captchaVerified, nextSalt>>]_vars

\* the no-challenge error has been sent with an unspent acceptance in the session
C6_Witness ==
  /\ resp[1].status = 400
  /\ captchaHash = Null
  /\ captchaVerified = "true"

C8_InstantClick ==
  (fnOut # Undef /\ fnIn.interactionTime.type = "number" /\ fnIn.interactionTime.val < 500)
  => (fnOut = Num(0) /\ ~ScorePasses(fnOut.val))

\* a trajectory of 41 samples that scores 100 at 2000 ms has scored 0 at 499 ms
C8_Witness ==
  /\ fnOut = Num(0)
  /\ fnIn.interactionTime = Num(499)
  /\ fnIn.path = Arr(MkPath(41, <<Step(20, 0, 20), Step(0, 10, 20)>>))

\* C9: with fewer than 15 samples, or no trajectory, the score depends on
\* the interaction time alone: 0 below 500, 30 above 1500, 0 otherwise.
C9_ShortPath ==
  (fnOut # Undef /\ (fnIn.path = Undef \/ Len(fnIn.path.val) < 15))
  => LET t == fnIn.interactionTime
     IN fnOut = IF t.type = "number" /\ t.val < 500 THEN Num(0)
                ELSE IF t.type = "number" /\ t.val > 1500 THEN Num(30)
                ELSE Num(0)

\* a curved, uneven trajectory of 14 samples has scored 30 at 2000 ms
C9_Witness ==
  /\ fnOut = Num(30)
  /\ fnIn.interactionTime = Num(2000)
  /\ fnIn.path = Arr(MkPath(14, <<Step(20, 0, 20), Step(0, 10, 20)>>))

\* C10: for at least 5 key events the verdict is not-human-like exactly when
\* the mean delay is below 50 ms or more than half of the delays are under 40 ms.
C10_Verdict ==
  (fnOut # Undef /\ fnOut # Threw /\ fnIn.type = "array" /\ Len(fnIn.val) >= 5)
  => LET delays == Delays(fnIn.val)
         fast == Cardinality({k \in 1..Len(delays) : delays[k] < 40})
     IN fnOut.val = ~(SumSeq(delays) < 50 * Len(delays) \/ 2 * fast > Len(delays))

\* C11: the issue flow.  A request without a text answer that does not
\* carry both a trajectory and an interaction time is never accepted; every
\* response to it issues a challenge, which is then the outstanding one.
C11_IssueFlow ==
  (fnIn.captchaInput = Undef /\ (fnIn.mousePath = Undef \/ fnIn.interactionTime = Undef))
  => /\ resp[1].verified # "true"
     /\ captchaVerified # "true"
     /\ (pc[1] = "idle" /\ resp[1].status # 0)
        => /\ resp[1].status = 200
           /\ resp[1].challengeRequired
           /\ captchaHash.type = "hash"
           /\ captchaHash.salt = resp[1].issued

\* C12: no internal failure reaches the caller.  No request, whatever its
\* fields hold, is answered with the generic internal-error response.
C12_NoInternalError ==
  \A r \in Reqs : resp[r].status # 500

C14_FewKeysFail ==
  LET ke == fnIn.keyEvents
      few == ke \in {Undef, Null} \/ (ke.type = "array" /\ Len(ke.val) < 5)
  IN (Truthy(fnIn.captchaInput) /\ few)
     => /\ analyzeKeystrokes(ke) = Bool(FALSE)
        /\ resp[1].verified # "true"
        /\ captchaVerified # "true"

\* the right text typed with 4 key events 80 ms apart has been rejected
C14_Witness ==
  /\ fnIn.keyEvents = Arr(EventsOf(<<80, 80, 80>>))
  /\ resp[1].status = 401
  /\ resp[1].message = "Typing pattern seems automated. Please try again."
  /\ EqualIgnoringCase(fnIn.captchaInput.val, secretOf[resp[1].salt])

\* C15: routing precedence.  A request with a non-empty text answer is
\* handled by the text flow and never scored: it is accepted only when its
\* text equals the challenge's and its keystrokes are human-like, whatever
\* trajectory and interaction time it carries.  A request whose text answer
\* is absent or empty is handled by the behavioral path.
C15_TextFirst ==
  LET ci == fnIn.captchaInput
  IN /\ (ci.type = "string" /\ Len(ci.val) > 0)
        => /\ pc[1] = "hashBehavioral" => loc[1].score = BodyScore[IssueBody].val
           /\ resp[1].flow = "behavioral"
              => (resp[1].score = BodyScore[IssueBody].val /\ resp[1].verified = "false")
           /\ resp[1].verified = "true"
              => /\ resp[1].flow = "text"
                 /\ EqualIgnoringCase(ci.val, secretOf[resp[1].salt])
                 /\ analyzeKeystrokes(fnIn.keyEvents) = Bool(TRUE)
           /\ captchaVerified = "true"
              => /\ \E k \in DOMAIN secretOf : EqualIgnoringCase(ci.val, secretOf[k])
                 /\ analyzeKeystrokes(fnIn.keyEvents) = Bool(TRUE)
     /\ (ci = Undef \/ ci = Str(<<>>))
        => /\ pc[1] \notin {"compare", "hashText"}
           /\ resp[1].flow # "text"

\* a wrong text sent with a trajectory that scores 100 has been rejected
C15_Witness ==
  /\ fnIn.mousePath = RichPath(41)
  /\ fnIn.interactionTime = Num(2000)
  /\ ScorePasses(BodyScore[fnIn].val)
  /\ resp[1].status = 401
  /\ resp[1].message = "Incorrect text. Please try again."

\* C16: timing alone never passes.  A request handled by the behavioral
\* flow whose trajectory is absent or has fewer than 15 samples scores at
\* most 30 and is answered with a challenge, never accepted, whatever its
\* interaction time.
C16_TimingAlone ==
  LET mp == fnIn.mousePath
      short == mp \in {Undef, Null} \/ (mp.type = "array" /\ Len(mp.val) < 15)
  IN (~Truthy(fnIn.captchaInput) /\ short)
     => /\ pc[1] = "hashBehavioral" => loc[1].score <= 30
        /\ captchaVerified # "true"
        /\ resp[1].status # 0
           => /\ resp[1].flow = "behavioral"
              /\ resp[1].status = 200
              /\ resp[1].score <= 30
              /\ resp[1].verified = "false"
              /\ resp[1].challengeRequired

\* a curved trajectory of 14 samples sent after ten minutes has got a challenge
C16_Witness ==
  /\ fnIn = Body(RichPath(14), Num(600000), Undef, Undef)
  /\ resp[1].score = 30
  /\ resp[1].challengeRequired

\* the number of challenges stored in the session so far; the last one
\* stored has this salt when requests are handled one after the other
Issued == Cardinality(DOMAIN secretOf)

C18_LoginGate ==
  [][/\ captchaVerified' # captchaVerified
        => IF captchaVerified' = "true"
           THEN /\ pc'[1] = "idle"
                /\ resp'[1].status = 200 /\ resp'[1].verified = "true"
                /\ (AfterCompare(1) \/ \E body \in Bodies : VerifyStart(1, body))
           ELSE /\ captchaVerified = "true" /\ captchaVerified' = "false"
                /\ Login /\ loginResp' = 200
     /\ Login
        => /\ loginResp' \in {200, 403}
           /\ loginResp' = 200 <=> captchaVerified = "true"
           /\ loginResp' = 200 => captchaVerified' = "false"
           /\ loginResp' = 403 => captchaVerified' = captchaVerified
     /\ (resp'[1] # resp[1] /\ resp'[1].verified # "true")
        => captchaVerified' = captchaVerified]_vars

\* an acceptance has been spent by a login and the next login was refused
C18_Witness ==
  /\ captchaVerified = "false"
  /\ resp[1].verified = "true"
  /\ loginResp = 403

\* C19: the client component.  It enters 'verified', calling onVerified(true),
\* only on a response with verified true; every other response moves it to
\* 'challenge' and calls onVerified(false); a network error calls
\* onVerified(false) and leaves the status; once 'verified' it sends no
\* further request and stays 'verified'.
C19_WidgetStates ==
  [][/\ (widget'.status = "verified" /\ widget.status # "verified")
        => /\ \E data \in ServerResponses : data.verified = "true" /\ ReceiveResponse(data)
           /\ widget'.lastCall = "true"
     /\ \A data \in ServerResponses :
          (data.verified # "true" /\ ReceiveResponse(data))
          => (widget'.status = "challenge" /\ widget'.lastCall = "false")
     /\ NetworkError => (widget'.status = widget.status /\ widget'.lastCall = "false")
     /\ widget.status = "verified"
        => (widget'.status = "verified" /\ widget'.sent = widget.sent)]_vars

====
